---------------------------- MODULE Spec2Model ----------------------------
(***************************************************************************)
(* Satellite Data Viewer Backend: the per-client rate/quota governor       *)
(* (app/middleware.py), the fetch endpoints that sit behind it             *)
(* (app/routes.py, app/download.py, app/conversion.py, app/collections.py) *)
(* and the upload helper (app/s3_utils.py).                                *)
(*                                                                         *)
(* Time is in seconds.  datetime.now() is modelled by the variable now,    *)
(* which only moves forward.  Sizes are in KiB, so that size_bytes /       *)
(* (1024 * 1024) is the fixed-point number size / 1024.                    *)
(***************************************************************************)
EXTENDS Integers, Sequences, FiniteSets, TLC

(***************************************************************************)
(* Bounds of the model.                                                    *)
(***************************************************************************)
\* small clock steps are taken while the offset into the hour is below this
MaxOffset == 80
\* the clock stops here
MaxTime == 3700
\* the ghost count of denied attempts saturates here
MaxDenials == 2
\* record_download is called while the client's download log is shorter than this
MaxDownloads == 3
\* in the two-client ledger, the second client's logs are shorter than this
MaxOther == 2

Clients == {"a", "b"}

\* the clock's steps: a third of the request window, and the quota window
Steps == {20, 3600}

VARIABLES
    now,        \* datetime.now()
    requests,   \* tracker.requests: IP -> list of timestamps
    downloads,  \* tracker.downloads: IP -> list of (timestamp, size_mb)
    lastOp,     \* ghost: the tracker call made by the last step, and its result
    admitted,   \* ghost: per client, the times of the allowed calls of the last minute
    denials,    \* ghost: per client, denied attempts since the last allowed call
    recorded,   \* ghost: per client, the (time, size) of the downloads recorded in the last hour
    turnstile_secret_key,   \* settings.turnstile_secret_key
    req,        \* the requests being handled: slot -> the request and its handler's locals
    disk,       \* the files in settings.tmp_dir of the requests in the slots:
                \* <<slot, "tif" | "png">>
    call        \* the last call of a function made on its own: its name, its
                \* arguments and its outcome

tracker == <<now, requests, downloads, lastOp, admitted, denials, recorded>>

pipeline == <<turnstile_secret_key, req, disk, call>>

vars == <<now, requests, downloads, lastOp, admitted, denials, recorded,
          turnstile_secret_key, req, disk, call>>

(***************************************************************************)
(* defaultdict(list): reading a missing key yields the empty list, and     *)
(* every self.requests[ip] / self.downloads[ip] access creates the key.    *)
(***************************************************************************)
Get(d, k) == IF k \in DOMAIN d THEN d[k] ELSE <<>>

PutEveryKey(d, k, v) == [x \in (DOMAIN d) \cup {k} |-> v]

Put(d, k, v) == [x \in (DOMAIN d) \cup {k} |-> IF x = k THEN v ELSE d[x]]

Min(a, b) == IF a < b THEN a ELSE b

\* the ledger holds no key but ip: the calls of a behaviour are one client's
Sole(ip) == (DOMAIN requests) \cup (DOMAIN downloads) \subseteq {ip}

(***************************************************************************)
(* RequestTracker.check_rate_limit                                         *)
(***************************************************************************)
\* cutoff = now - timedelta(minutes=window_minutes)
RateCutoff(t, window_minutes) == t - window_minutes * 60

CleanRequestsKeepAll(log, cutoff) == log

\* [ts for ts in self.requests[ip] if ts > cutoff]
CleanRequests(log, cutoff) == SelectSeq(log, LAMBDA ts : ts > cutoff)

RateLimitExceededOffByOne(log, max_requests) == Len(log) > max_requests

\* if len(self.requests[ip]) >= max_requests: return False
RateLimitExceeded(log, max_requests) == Len(log) >= max_requests

RateLogAfterAlwaysAppend(cleaned, t, exceeded) == Append(cleaned, t)

RateLogAfterNeverAppend(cleaned, t, exceeded) == cleaned

\* the log the call leaves: appended to only when the call is allowed
RateLogAfter(cleaned, t, exceeded) ==
    IF exceeded THEN cleaned ELSE Append(cleaned, t)

\* the value check_rate_limit(ip, max_requests, window_minutes) returns
RateAllowed(ip, max_requests, window_minutes) ==
    ~RateLimitExceeded(
        CleanRequests(Get(requests, ip), RateCutoff(now, window_minutes)),
        max_requests)

\* self.requests after check_rate_limit(ip, max_requests, window_minutes)
RequestsAfterCheck(ip, max_requests, window_minutes) ==
    LET cleaned == CleanRequests(Get(requests, ip),
                                 RateCutoff(now, window_minutes))
    IN  Put(requests, ip,
            RateLogAfter(cleaned, now,
                         RateLimitExceeded(cleaned, max_requests)))

\* the ghosts of a check_rate_limit(ip, ...) call that returned ok
RateGhosts(ip, ok) ==
    /\ admitted' = [admitted EXCEPT ![ip] = IF ok THEN Append(@, now) ELSE @]
    /\ denials' = [denials EXCEPT
                     ![ip] = IF ok THEN 0 ELSE Min(@ + 1, MaxDenials)]

\* tracker.check_rate_limit(client_ip, max_requests=10, window_minutes=1)
MaxRequests == 10
WindowMinutes == 1

\* lastOp.idle says that no call of ip had been allowed within the minute before
\* this one, lastOp.denied how many were denied since the last allowed one
CheckRateLimit(ip) ==
    /\ requests' = RequestsAfterCheck(ip, MaxRequests, WindowMinutes)
    /\ RateGhosts(ip, RateAllowed(ip, MaxRequests, WindowMinutes))
    /\ lastOp' = [op |-> "check_rate_limit", ip |-> ip,
                  ok |-> RateAllowed(ip, MaxRequests, WindowMinutes),
                  idle |-> admitted[ip] = <<>>, denied |-> denials[ip]]
    /\ UNCHANGED <<now, downloads, recorded>>
    /\ UNCHANGED pipeline

(***************************************************************************)
(* RequestTracker.check_download_quota and record_download.  A record is   *)
(* <<timestamp, size>>, the size in KiB: size_mb * 1024.                   *)
(***************************************************************************)
RECURSIVE SumSizes(_)
\* sum(size for _, size in log)
SumSizes(log) == IF log = <<>> THEN 0 ELSE log[1][2] + SumSizes(Tail(log))

\* [(ts, size) for ts, size in self.downloads[ip] if ts > cutoff], cutoff an hour back
CleanDownloads(log, t) == SelectSeq(log, LAMBDA rec : rec[1] > t - 3600)

QuotaWithinInclusive(total, max_mb_per_hour) == total <= max_mb_per_hour * 1024

\* return total_mb < max_mb_per_hour
QuotaWithin(total, max_mb_per_hour) == total < max_mb_per_hour * 1024

\* the value check_download_quota(ip, max_mb_per_hour) returns
QuotaAllowed(ip, max_mb_per_hour) ==
    QuotaWithin(SumSizes(CleanDownloads(Get(downloads, ip), now)),
                max_mb_per_hour)

DownloadsAfterCheckLogging(ip) ==
    Put(downloads, ip, Append(CleanDownloads(Get(downloads, ip), now), <<now, 0>>))

\* self.downloads after check_download_quota(ip, ...)
DownloadsAfterCheck(ip) ==
    Put(downloads, ip, CleanDownloads(Get(downloads, ip), now))

DownloadsAfterRecordReplace(ip, size) ==
    Put(downloads, ip, <<<<now, size>>>>)

\* self.downloads after record_download(ip, size_bytes), size_bytes = size * 1024
DownloadsAfterRecord(ip, size) ==
    Put(downloads, ip, Append(Get(downloads, ip), <<now, size>>))

\* tracker.check_download_quota(client_ip, max_mb_per_hour=5000)
MaxMbPerHour == 5000

CheckDownloadQuota(ip) ==
    /\ downloads' = DownloadsAfterCheck(ip)
    /\ lastOp' = [op |-> "check_download_quota", ip |-> ip,
                  ok |-> QuotaAllowed(ip, MaxMbPerHour), idle |-> FALSE,
                  denied |-> 0]
    /\ UNCHANGED <<now, requests, admitted, denials, recorded>>
    /\ UNCHANGED pipeline

RecordDownload(ip, size) ==
    /\ Len(Get(downloads, ip)) < MaxDownloads
    /\ downloads' = DownloadsAfterRecord(ip, size)
    /\ recorded' = [recorded EXCEPT ![ip] = Append(@, <<now, size>>)]
    /\ lastOp' = [op |-> "record_download", ip |-> ip, ok |-> TRUE,
                  idle |-> FALSE, denied |-> 0]
    /\ UNCHANGED <<now, requests, admitted, denials>>
    /\ UNCHANGED pipeline

(***************************************************************************)
(* The requests.  A path is its list of segments.  A field of the request  *)
(* body is drawn where the handler first uses it.                          *)
(***************************************************************************)
Reqs == {1, 2}

DownloadPath == <<"download">>
InfoPath == <<"download", "info">>
StatsPath == <<"stats">>
Paths == {DownloadPath, InfoPath, StatsPath}

\* OutputFormat
Formats == {"geotiff", "png"}

\* request.turnstile_token: absent, or some token
Tokens == {"", "token"}

\* settings.turnstile_secret_key: the default, or configured
SecretKeys == {"", "secret"}

(***************************************************************************)
(* app/collections.py                                                      *)
(***************************************************************************)
COLLECTION_ASSETS ==
    [c \in {"sentinel-2-l2a", "landsat-c2-l2", "sentinel-1-grd", "sentinel-1-rtc",
            "modis-09A1-061", "modis-13Q1-061", "cop-dem-glo-30"} |->
      CASE c = "sentinel-2-l2a" ->
             [disabled |-> FALSE,
              assets |-> {"visual", "B02", "B03", "B04", "B05", "B08", "B11", "SCL"}]
        [] c = "landsat-c2-l2" ->
             [disabled |-> FALSE,
              assets |-> {"red", "green", "blue", "nir08", "swir16", "lwir11",
                          "qa_pixel"}]
        [] c = "sentinel-1-grd" -> [disabled |-> TRUE, assets |-> {"vv", "vh"}]
        [] c = "sentinel-1-rtc" -> [disabled |-> TRUE, assets |-> {"vv", "vh"}]
        [] c = "modis-09A1-061" ->
             [disabled |-> FALSE,
              assets |-> {"sur_refl_b01", "sur_refl_b02", "sur_refl_b03",
                          "sur_refl_b04"}]
        [] c = "modis-13Q1-061" ->
             [disabled |-> FALSE,
              assets |-> {"250m_16_days_NDVI", "250m_16_days_EVI"}]
        [] OTHER -> [disabled |-> FALSE, assets |-> {"data"}]]

\* collection = COLLECTION_ASSETS.get(collection_id); collection and collection.get("disabled")
is_collection_disabled(collection_id) ==
    /\ collection_id \in DOMAIN COLLECTION_ASSETS
    /\ COLLECTION_ASSETS[collection_id].disabled

get_available_assets(collection_id) ==
    IF collection_id \in DOMAIN COLLECTION_ASSETS
    THEN COLLECTION_ASSETS[collection_id].assets
    ELSE {}

is_valid_asset_anywhere(collection_id, asset_key) ==
    \E c \in DOMAIN COLLECTION_ASSETS : asset_key \in COLLECTION_ASSETS[c].assets

is_valid_asset(collection_id, asset_key) ==
    asset_key \in get_available_assets(collection_id)

\* the (collection, asset_key) pairs of the requests: a valid pair, an asset of
\* another collection, a disabled collection, an unknown collection
Targets == {<<"sentinel-2-l2a", "visual">>, <<"sentinel-2-l2a", "vv">>,
            <<"sentinel-1-grd", "vv">>, <<"invalid-collection", "visual">>}

(***************************************************************************)
(* File sizes, in KiB.                                                     *)
(***************************************************************************)
\* settings.max_file_size_mb
MaxFileSizeMb == 1500

TooLargePastOne(file_size) == file_size > MaxFileSizeMb * 1024 + 1

\* file_size > settings.max_file_size_mb * 1024 * 1024
TooLarge(file_size) == file_size > MaxFileSizeMb * 1024

\* os.path.getsize(output_path) of a written GeoTIFF: at the limit, and past it
TifSizes == {1500 * 1024, 1500 * 1024 + 1}

\* os.path.getsize(output_path) of a written PNG
PngSizes == {1500 * 1024}

(***************************************************************************)
(* A request slot: the request, where its handling stands, the handler's   *)
(* locals, and ghosts: work (the downstream work done for it), rate and    *)
(* quota (what the governor's checks returned for it), tile (how its call  *)
(* of download_tile ended), output_id (the output_id download_tile drew    *)
(* for its file name, "" when it drew none), rec (it called                 *)
(* record_download), cancelledAt (the checkpoint that saw the client       *)
(* gone), started and delivered (the body iterator), verified              *)
(* (verify_turnstile_token returned True for it).                          *)
(***************************************************************************)
IdleReq ==
    [pc |-> "idle", ip |-> "", path |-> <<>>, format |-> "", collection |-> "",
     asset_key |-> "", connected |-> FALSE, outcome |-> "", tile |-> "",
     output_id |-> "",
     output_tif |-> FALSE, tif_size |-> 0, output_png |-> FALSE,
     work |-> {}, rate |-> "", quota |-> "", rec |-> FALSE, cancelledAt |-> 0,
     started |-> FALSE, delivered |-> FALSE, verified |-> FALSE]

\* the status_code of the HTTPException raised, or 200
Status(outcome) ==
    CASE outcome \in {"rate_limited", "quota_exceeded"} -> 429
      [] outcome = "forbidden" -> 403
      [] outcome \in {"disabled", "download_error"} -> 400
      [] outcome \in {"conversion_error", "unexpected_error"} -> 500
      [] OTHER -> 200

\* the files of the request in slot r
Files(r) == {f \in disk : f[1] = r}

cleanup_file_skip(files, path) == files

\* if os.path.exists(file_path): os.remove(file_path)
cleanup_file(files, path) == files \ {path}

\* no tracker call in this step
NoTrackerCall ==
    /\ lastOp' = [op |-> "request", ip |-> "", ok |-> TRUE, idle |-> FALSE,
                  denied |-> 0]
    /\ UNCHANGED <<now, requests, downloads, admitted, denials, recorded>>

Finish(rq, outcome) == [rq EXCEPT !.pc = "done", !.outcome = outcome]

\* the client goes away
Disconnect(r) ==
    /\ req[r].pc \notin {"idle", "done"}
    /\ req[r].connected
    /\ req' = [req EXCEPT ![r].connected = FALSE]
    /\ NoTrackerCall
    /\ UNCHANGED <<turnstile_secret_key, disk, call>>

(***************************************************************************)
(* MonitoringMiddleware.dispatch, for a request that arrives from ip for   *)
(* path.  The requests of a behaviour are one client's.                    *)
(***************************************************************************)
\* request.url.path.startswith("/download")
Gated(path) == Len(path) >= 1 /\ path[1] = "download"

DispatchOutcomeQuotaLogged(rate_ok, quota_ok) ==
    IF ~rate_ok THEN "rate_limited" ELSE "call_next"

\* the two raises of dispatch, else call_next
DispatchOutcome(rate_ok, quota_ok) ==
    IF ~rate_ok THEN "rate_limited"
    ELSE IF ~quota_ok THEN "quota_exceeded"
    ELSE "call_next"

Dispatch(r, ip, path) ==
    LET rq == [IdleReq EXCEPT !.ip = ip, !.path = path, !.connected = TRUE]
        rate_ok == RateAllowed(ip, MaxRequests, WindowMinutes)
        quota_ok == QuotaAllowed(ip, MaxMbPerHour)
        next == DispatchOutcome(rate_ok, quota_ok)
    IN  /\ req[r].pc = "idle"
        /\ Sole(ip)
        /\ \A q \in Reqs : req[q].pc # "idle" => req[q].ip = ip
        /\ IF Gated(path)
           THEN /\ requests' = RequestsAfterCheck(ip, MaxRequests, WindowMinutes)
                /\ RateGhosts(ip, rate_ok)
                /\ downloads' = IF rate_ok THEN DownloadsAfterCheck(ip)
                                ELSE downloads
                /\ lastOp' = [op |-> "dispatch", ip |-> ip,
                              ok |-> rate_ok /\ quota_ok,
                              idle |-> FALSE, denied |-> 0]
                /\ req' = [req EXCEPT ![r] =
                     [(IF next = "call_next"
                       THEN [rq EXCEPT !.pc = "handler"]
                       ELSE Finish(rq, next))
                      EXCEPT !.rate = IF rate_ok THEN "allowed" ELSE "denied",
                             !.quota = IF ~rate_ok THEN ""
                                       ELSE IF quota_ok THEN "allowed"
                                       ELSE "denied"]]
                /\ UNCHANGED <<now, recorded>>
           ELSE /\ req' = [req EXCEPT ![r] = [rq EXCEPT !.pc = "handler"]]
                /\ NoTrackerCall
        /\ UNCHANGED <<turnstile_secret_key, disk, call>>

(***************************************************************************)
(* verify_turnstile_token, then the disabled-collection check of download  *)
(***************************************************************************)
\* what Cloudflare's siteverify call can do
VerifyReplies == {"success", "failure", "error"}

\* whether verify_turnstile_token posts to Cloudflare
VerifyCalls(secret, token) == secret # "" /\ token # ""

\* the value verify_turnstile_token returns, reply being the call's outcome
verify_turnstile_token(secret, token, reply) ==
    IF secret = "" THEN TRUE
    ELSE IF token = "" THEN FALSE
    ELSE reply = "success"

Verify(r, token, target) ==
    LET rq == [req[r] EXCEPT !.collection = target[1], !.asset_key = target[2]]
    IN
    /\ req[r].pc = "handler"
    /\ req[r].path = DownloadPath
    /\ \E reply \in VerifyReplies :
         LET called == VerifyCalls(turnstile_secret_key, token)
             rv == [rq EXCEPT !.work = IF called THEN @ \cup {"verify"} ELSE @,
                              !.verified = verify_turnstile_token(
                                               turnstile_secret_key, token, reply)]
         IN  /\ ~called => reply = "success"
             /\ req' = [req EXCEPT ![r] =
                  IF ~verify_turnstile_token(turnstile_secret_key, token, reply)
                  THEN Finish(rv, "forbidden")
                  ELSE IF is_collection_disabled(rq.collection)
                  THEN Finish(rv, "disabled")
                  ELSE [rv EXCEPT !.pc = "checkpoint1"]]
    /\ NoTrackerCall
    /\ UNCHANGED <<turnstile_secret_key, disk, call>>

(***************************************************************************)
(* download_tile.  Its outcome: the error it raises or "ok", the work it   *)
(* did, and whether it left a file at output_path.                         *)
(***************************************************************************)
\* the raster behind the asset URL, along one axis: the coordinate of its left
\* edge, the size of a pixel, and its width in pixels
Raster == [origin |-> 10, res |-> 2, width |-> 4]

\* request.bbox, along that axis and in the raster's CRS: none, inside the
\* raster, off its right edge, off its left edge, across its right edge
BBoxes == {<<>>, <<12, 16>>, <<20, 24>>, <<2, 6>>, <<16, 22>>}

\* window = from_bounds(*src_bounds, src.transform)
from_bounds(left, right, transform) ==
    [col_off |-> (left - transform.origin) \div transform.res,
     width |-> (right - left) \div transform.res]

\* the pixels of the window that lie on the raster
WindowOnRaster(window, raster) ==
    Min(window.col_off + window.width, raster.width)
        - (IF window.col_off > 0 THEN window.col_off ELSE 0)

NoWindow == [col_off |-> 0, width |-> 0]

\* the steps after validation, in order: each can fail, and the GeoTIFF write can
\* fail before or after rasterio has created the file.  Client.open is outside
\* the try block of get_stac_item: its failure is no DownloadError
TileFailures == {"catalog", "stac", "asset_url", "open", "read", "write_open",
                 "write"}

TileWork(failure) ==
    CASE failure = "catalog" -> {"lookup"}
      [] failure = "stac" -> {"lookup"}
      [] failure = "asset_url" -> {"lookup", "sign"}
      [] failure = "open" -> {"lookup", "sign", "open"}
      [] failure = "read" -> {"lookup", "sign", "open", "read"}
      [] failure = "write_open" -> {"lookup", "sign", "open", "read"}
      [] OTHER -> {"lookup", "sign", "open", "read", "tif_file"}

\* the exception class that leaves download_tile
TileRaises(result) ==
    CASE result = "ok" -> ""
      [] result = "catalog" -> "Exception"
      [] OTHER -> "DownloadError"

\* output_id = str(uuid.uuid4())[:8]: the values it can take
OutputIds == {"1f2e3d4c", "9a8b7c6d"}

\* download_tile got as far as making output_path
PathMade(o) ==
    o.result \notin {"invalid_asset", "unknown_collection", "catalog", "stac",
                     "asset_url"}

\* output_path, f"{collection}_{item_id}_{asset_key}_{output_id}.tif" in tmp_dir,
\* of a request, all requests being for one item; geotiff_to_png writes to
\* output_path.replace(".tif", ".png")
OutputPath(rq, ext) == <<rq.collection, "item", rq.asset_key, rq.output_id, ext>>

\* the sizes an error message of download_tile reports, in tenths of a MB
\* (f"{file_size / 1024 / 1024:.1f}") and in MB
SizeReport(file_size) ==
    <<(file_size * 10 + 512) \div 1024, MaxFileSizeMb>>

NoReport == <<0, 0>>

\* the window download_tile reads: src.read(window=window) for a bbox, with
\* nothing in between from_bounds and the read; src.read() without one
TileWindow(bbox, work) ==
    IF bbox # <<>> /\ "read" \in work
    THEN from_bounds(bbox[1], bbox[2], Raster)
    ELSE NoWindow

\* the outcomes of download_tile(collection, item_id, asset_key, bbox): the
\* result, the exception raised, the work done, whether a file is left at
\* output_path, the size os.path.getsize saw, the size returned, the asset keys
\* and the sizes its error message lists, and the window read
TileOutcomes(collection, asset_key, bbox) ==
    IF ~is_valid_asset(collection, asset_key)
    THEN {[result |-> IF collection \in DOMAIN COLLECTION_ASSETS
                      THEN "invalid_asset" ELSE "unknown_collection",
           raises |-> "DownloadError", work |-> {}, file |-> FALSE,
           file_size |-> 0, size |-> 0,
           listed |-> get_available_assets(collection), report |-> NoReport,
           window |-> NoWindow]}
    ELSE {[result |-> f, raises |-> TileRaises(f), work |-> TileWork(f),
           file |-> f = "write", file_size |-> 0, size |-> 0, listed |-> {},
           report |-> NoReport,
           window |-> TileWindow(bbox, TileWork(f))] : f \in TileFailures}
         \cup {[result |-> IF TooLarge(size) THEN "too_large" ELSE "ok",
                raises |-> IF TooLarge(size) THEN "DownloadError" ELSE "",
                work |-> TileWork("ok"), file |-> ~TooLarge(size),
                file_size |-> size,
                size |-> IF TooLarge(size) THEN 0 ELSE size, listed |-> {},
                report |-> IF TooLarge(size) THEN SizeReport(size) ELSE NoReport,
                window |-> TileWindow(bbox, TileWork("ok"))] : size \in TifSizes}

(***************************************************************************)
(* geotiff_to_png.  PIL may or may not leave a partial file when the save  *)
(* fails.                                                                  *)
(***************************************************************************)
PngOutcomes ==
    {[result |-> "read", work |-> {"convert"}, file |-> FALSE, size |-> 0],
     [result |-> "save", work |-> {"convert"}, file |-> FALSE, size |-> 0],
     [result |-> "save", work |-> {"convert", "png_file"}, file |-> TRUE,
      size |-> 0]}
    \cup {[result |-> "ok", work |-> {"convert", "png_file"}, file |-> TRUE,
           size |-> size] : size \in PngSizes}

(***************************************************************************)
(* download: the steps between its awaits                                  *)
(***************************************************************************)
\* a checkpoint saw the client gone: return None
Cancelled(rq, k) == [Finish(rq, "cancelled") EXCEPT !.cancelledAt = k]

\* "Check if client disconnected before starting"
Checkpoint1(r) ==
    LET rq == req[r] IN
    /\ rq.pc = "checkpoint1"
    /\ req' = [req EXCEPT ![r] =
                 IF ~rq.connected THEN Cancelled(rq, 1)
                 ELSE [rq EXCEPT !.pc = "fetch"]]
    /\ NoTrackerCall
    /\ UNCHANGED <<turnstile_secret_key, disk, call>>

\* output_tif, tif_size = await download_tile(...), and the except clauses when it
\* raises: output_tif is still None, so nothing is cleaned up
DownloadTile(r, output_id) ==
    LET rq == req[r] IN
    /\ rq.pc = "fetch"
    /\ \E bbox \in BBoxes :
       \E o \in TileOutcomes(rq.collection, rq.asset_key, bbox) :
         LET rw == [rq EXCEPT !.work = @ \cup {"download_tile"} \cup o.work,
                              !.tile = o.result,
                              !.output_id = IF PathMade(o) THEN output_id ELSE ""]
         IN
         /\ disk' = IF o.file THEN disk \cup {<<r, "tif">>} ELSE disk
         /\ req' = [req EXCEPT ![r] =
                      IF o.raises = ""
                      THEN [rw EXCEPT !.pc = "checkpoint2", !.output_tif = TRUE,
                                      !.tif_size = o.size]
                      ELSE IF o.raises = "DownloadError"
                      THEN Finish(rw, "download_error")
                      ELSE Finish(rw, "unexpected_error")]
    /\ NoTrackerCall
    /\ UNCHANGED <<turnstile_secret_key, call>>

\* "Check if client disconnected after download", then the branch on request.format
Checkpoint2(r, format) ==
    LET rq == req[r] IN
    /\ rq.pc = "checkpoint2"
    /\ IF ~rq.connected
       THEN /\ disk' = cleanup_file(disk, <<r, "tif">>)
            /\ req' = [req EXCEPT ![r] = Cancelled(rq, 2)]
       ELSE /\ disk' = disk
            /\ req' = [req EXCEPT ![r].format = format,
                                  ![r].pc = IF format = "png"
                                            THEN "checkpoint3" ELSE "respond"]
    /\ NoTrackerCall
    /\ UNCHANGED <<turnstile_secret_key, call>>

\* "Check before conversion (can be slow)"
Checkpoint3(r) ==
    LET rq == req[r] IN
    /\ rq.pc = "checkpoint3"
    /\ IF ~rq.connected
       THEN /\ disk' = cleanup_file(disk, <<r, "tif">>)
            /\ req' = [req EXCEPT ![r] = Cancelled(rq, 3)]
       ELSE /\ disk' = disk
            /\ req' = [req EXCEPT ![r].pc = "convert"]
    /\ NoTrackerCall
    /\ UNCHANGED <<turnstile_secret_key, call>>

\* tracker.record_download(client_ip, size) made by request r
Record(r, size) ==
    /\ downloads' = DownloadsAfterRecord(req[r].ip, size)
    /\ recorded' = [recorded EXCEPT ![req[r].ip] = Append(@, <<now, size>>)]
    /\ lastOp' = [op |-> "record_download", ip |-> req[r].ip, ok |-> TRUE,
                  idle |-> FALSE, denied |-> 0]
    /\ UNCHANGED <<now, requests, admitted, denials>>

\* output_png, png_size = geotiff_to_png(output_tif, ...); record_download;
\* cleanup_file(output_tif).  When it raises ConversionError, the except clause
\* cleans up output_tif; output_png is still None
Convert(r) ==
    LET rq == req[r] IN
    /\ rq.pc = "convert"
    /\ \E o \in PngOutcomes :
         LET rw == [rq EXCEPT !.work = @ \cup o.work] IN
         /\ disk' = cleanup_file(IF o.file THEN disk \cup {<<r, "png">>} ELSE disk,
                                 <<r, "tif">>)
         /\ IF o.result = "ok"
            THEN /\ req' = [req EXCEPT ![r] =
                      [rw EXCEPT !.pc = "checkpoint4", !.output_png = TRUE,
                                 !.rec = TRUE]]
                 /\ Record(r, o.size)
            ELSE /\ req' = [req EXCEPT ![r] = Finish(rw, "conversion_error")]
                 /\ NoTrackerCall
    /\ UNCHANGED <<turnstile_secret_key, call>>

\* "Final check before sending", else return StreamingResponse(file_iterator(output_png))
Checkpoint4(r) ==
    LET rq == req[r] IN
    /\ rq.pc = "checkpoint4"
    /\ IF ~rq.connected
       THEN /\ disk' = cleanup_file(disk, <<r, "png">>)
            /\ req' = [req EXCEPT ![r] = Cancelled(rq, 4)]
       ELSE /\ disk' = disk
            /\ req' = [req EXCEPT ![r].pc = "stream", ![r].outcome = "ok"]
    /\ NoTrackerCall
    /\ UNCHANGED <<turnstile_secret_key, call>>

\* the GeoTIFF branch: record_download, return StreamingResponse(file_iterator(output_tif))
RespondTif(r) ==
    LET rq == req[r] IN
    /\ rq.pc = "respond"
    /\ req' = [req EXCEPT ![r].pc = "stream", ![r].outcome = "ok",
                          ![r].rec = TRUE]
    /\ Record(r, rq.tif_size)
    /\ UNCHANGED <<turnstile_secret_key, disk, call>>

(***************************************************************************)
(* file_iterator, driven by the StreamingResponse.  A generator that was   *)
(* never started has not entered its try block: dropping it runs no        *)
(* finally clause.  Closing a started one raises GeneratorExit at the      *)
(* yield, and the finally clause removes the file.                         *)
(***************************************************************************)
Streamed(rq) == IF rq.format = "png" THEN "png" ELSE "tif"

\* the first next(): open(file_path, "rb") and the first chunk
StartStream(r) ==
    /\ req[r].pc = "stream"
    /\ req' = [req EXCEPT ![r].pc = "streaming", ![r].started = TRUE]
    /\ NoTrackerCall
    /\ UNCHANGED <<turnstile_secret_key, disk, call>>

\* the last chunk was sent: the generator returns through its finally clause
FinishStream(r) ==
    /\ req[r].pc = "streaming"
    /\ req[r].connected
    /\ disk' = cleanup_file(disk, <<r, Streamed(req[r])>>)
    /\ req' = [req EXCEPT ![r].pc = "done", ![r].delivered = TRUE]
    /\ NoTrackerCall
    /\ UNCHANGED <<turnstile_secret_key, call>>

\* the client is gone: the response is abandoned and its body iterator dropped
AbortStream(r) ==
    /\ req[r].pc \in {"stream", "streaming"}
    /\ ~req[r].connected
    /\ disk' = IF req[r].started
               THEN cleanup_file(disk, <<r, Streamed(req[r])>>)
               ELSE disk
    /\ req' = [req EXCEPT ![r].pc = "done"]
    /\ NoTrackerCall
    /\ UNCHANGED <<turnstile_secret_key, call>>

(***************************************************************************)
(* download_info: download_tile, geotiff_to_png and the finally clause,    *)
(* with no await that suspends in between.  A DownloadError or             *)
(* ConversionError is not caught.                                          *)
(***************************************************************************)
DownloadInfo(r, target, format, output_id) ==
    LET rq == [req[r] EXCEPT !.collection = target[1], !.asset_key = target[2],
                             !.format = format]
    IN
    /\ req[r].pc = "handler"
    /\ req[r].path = InfoPath
    /\ \E bbox \in BBoxes :
       \E o \in TileOutcomes(rq.collection, rq.asset_key, bbox) :
         LET rw == [rq EXCEPT !.work = @ \cup {"download_tile"} \cup o.work,
                              !.tile = o.result,
                              !.output_id = IF PathMade(o) THEN output_id ELSE ""]
             d1 == IF o.file THEN disk \cup {<<r, "tif">>} ELSE disk
         IN
         IF o.raises # ""
         THEN /\ disk' = d1
              /\ req' = [req EXCEPT ![r] = Finish(rw, "unexpected_error")]
         ELSE IF format = "png"
         THEN \E p \in PngOutcomes :
                LET rp == [rw EXCEPT !.work = @ \cup p.work, !.output_tif = TRUE,
                                     !.tif_size = o.size]
                    d2 == IF p.file THEN d1 \cup {<<r, "png">>} ELSE d1
                IN
                IF p.result = "ok"
                THEN /\ disk' = cleanup_file(cleanup_file(d2, <<r, "tif">>),
                                             <<r, "png">>)
                     /\ req' = [req EXCEPT ![r] =
                          Finish([rp EXCEPT !.output_png = TRUE], "ok")]
                ELSE /\ disk' = cleanup_file(d2, <<r, "tif">>)
                     /\ req' = [req EXCEPT ![r] = Finish(rp, "unexpected_error")]
         ELSE /\ disk' = cleanup_file(d1, <<r, "tif">>)
              /\ req' = [req EXCEPT ![r] =
                   Finish([rw EXCEPT !.output_tif = TRUE, !.tif_size = o.size],
                          "ok")]
    /\ NoTrackerCall
    /\ UNCHANGED <<turnstile_secret_key, call>>

(***************************************************************************)
(* usage_stats: tracker.get_stats(client_ip) reads self.downloads[ip] and  *)
(* self.requests[ip]                                                       *)
(***************************************************************************)
UsageStats(r) ==
    LET rq == req[r] IN
    /\ rq.pc = "handler"
    /\ rq.path = StatsPath
    /\ downloads' = Put(downloads, rq.ip, Get(downloads, rq.ip))
    /\ requests' = Put(requests, rq.ip, Get(requests, rq.ip))
    /\ lastOp' = [op |-> "get_stats", ip |-> rq.ip, ok |-> TRUE, idle |-> FALSE,
                  denied |-> 0]
    /\ req' = [req EXCEPT ![r] = Finish(rq, "ok")]
    /\ UNCHANGED <<now, admitted, denials, recorded>>
    /\ UNCHANGED <<turnstile_secret_key, disk, call>>

\* the response is over and the slot takes the next request; the files the
\* request left stay in tmp_dir under names of their own and are followed no further
Retire(r) ==
    /\ req[r].pc = "done"
    /\ req' = [req EXCEPT ![r] = IdleReq]
    /\ disk' = disk \ Files(r)
    /\ NoTrackerCall
    /\ UNCHANGED <<turnstile_secret_key, call>>

(***************************************************************************)
(* The clock.  The ghost admitted forgets the calls that are a full        *)
(* minute old: it is kept by this rule alone, never by the tracker's own   *)
(* pruning.                                                                *)
(***************************************************************************)
Tick(d) ==
    /\ now + d <= MaxTime
    /\ d < 3600 => (now % 3600) < MaxOffset
    /\ now' = now + d
    /\ admitted' = [c \in Clients |->
                      SelectSeq(admitted[c], LAMBDA ts : now' - ts < 60)]
    /\ recorded' = [c \in Clients |->
                      SelectSeq(recorded[c], LAMBDA rec : now' - rec[1] < 3600)]
    /\ lastOp' = [op |-> "tick", ip |-> "", ok |-> TRUE, idle |-> FALSE,
                  denied |-> 0]
    /\ UNCHANGED <<requests, downloads, denials>>
    /\ UNCHANGED pipeline

NoCall == [fn |-> "none", args |-> <<>>, out |-> <<>>]

Init ==
    /\ now = 0
    /\ requests = <<>>
    /\ downloads = <<>>
    /\ lastOp = [op |-> "none", ip |-> "", ok |-> TRUE, idle |-> FALSE, denied |-> 0]
    /\ admitted = [c \in Clients |-> <<>>]
    /\ denials = [c \in Clients |-> 0]
    /\ recorded = [c \in Clients |-> <<>>]
    /\ turnstile_secret_key \in SecretKeys
    /\ req = [r \in Reqs |-> IdleReq]
    /\ disk = {}
    /\ call = NoCall

(***************************************************************************)
(* The rate limiter alone: every sequence of check_rate_limit calls of a   *)
(* client, at any times.                                                   *)
(***************************************************************************)
NextRate ==
    \/ \E c \in Clients : Sole(c) /\ CheckRateLimit(c)
    \/ \E d \in Steps : Tick(d)

SpecRate == Init /\ [][NextRate]_vars

(***************************************************************************)
(* The download quota alone: every sequence of check_download_quota and    *)
(* record_download calls of a client, at any times.                        *)
(***************************************************************************)
\* the sizes recorded, in KiB: 2000 MB, 1 KiB short of 2500 MB, and 2500 MB
Sizes == {2000 * 1024, 2500 * 1024 - 1, 2500 * 1024}

NextQuota ==
    \/ \E c \in Clients : Sole(c) /\ CheckDownloadQuota(c)
    \/ \E c \in Clients, size \in Sizes : Sole(c) /\ RecordDownload(c, size)
    \/ \E d \in Steps : Tick(d)

SpecQuota == Init /\ [][NextQuota]_vars

(***************************************************************************)
(* The ledger with both clients: every sequence of the four tracker calls  *)
(* of the two clients, an hour apart or not.                               *)
(***************************************************************************)
\* tracker.get_stats(ip): the subscripts self.downloads[ip] and self.requests[ip]
GetStats(ip) ==
    /\ downloads' = Put(downloads, ip, Get(downloads, ip))
    /\ requests' = Put(requests, ip, Get(requests, ip))
    /\ lastOp' = [op |-> "get_stats", ip |-> ip, ok |-> TRUE, idle |-> FALSE,
                  denied |-> 0]
    /\ UNCHANGED <<now, admitted, denials, recorded>>
    /\ UNCHANGED pipeline

\* client "a" calls at will; the logs of client "b" stay shorter than MaxOther
Light(c) ==
    c = "b" => /\ Len(Get(requests, c)) < MaxOther
               /\ Len(Get(downloads, c)) < MaxOther

NextLedger ==
    \/ \E c \in Clients : Light(c) /\ CheckRateLimit(c)
    \/ \E c \in Clients : CheckDownloadQuota(c)
    \/ \E c \in Clients : Light(c) /\ RecordDownload(c, 2000 * 1024)
    \/ \E c \in Clients : GetStats(c)
    \/ Tick(3600)

SpecLedger == Init /\ [][NextLedger]_vars

(***************************************************************************)
(* The service: requests arrive, pass the middleware and are handled,      *)
(* while clients may go away and the clock advances.                       *)
(***************************************************************************)
\* the slots in use: one request at a time
Serial == {1}

Next ==
    \/ \E r \in Serial, ip \in Clients, path \in Paths : Dispatch(r, ip, path)
    \/ \E r \in Serial : Disconnect(r)
    \/ \E r \in Serial, token \in Tokens, target \in Targets :
         Verify(r, token, target)
    \/ \E r \in Serial : Checkpoint1(r)
    \/ \E r \in Serial, output_id \in OutputIds : DownloadTile(r, output_id)
    \/ \E r \in Serial, format \in Formats : Checkpoint2(r, format)
    \/ \E r \in Serial : Checkpoint3(r)
    \/ \E r \in Serial : Convert(r)
    \/ \E r \in Serial : Checkpoint4(r)
    \/ \E r \in Serial : RespondTif(r)
    \/ \E r \in Serial : StartStream(r)
    \/ \E r \in Serial : FinishStream(r)
    \/ \E r \in Serial : AbortStream(r)
    \/ \E r \in Serial, target \in Targets, format \in Formats,
           output_id \in OutputIds :
         DownloadInfo(r, target, format, output_id)
    \/ \E r \in Serial : UsageStats(r)
    \/ \E r \in Serial : Retire(r)
    \/ Tick(3600)

Spec == Init /\ [][Next]_vars

(***************************************************************************)
(* Calls of download_tile: for every pair of a catalog collection or an    *)
(* unknown one with an asset key, and every bounding box.                  *)
(***************************************************************************)
TileTargets ==
    ((DOMAIN COLLECTION_ASSETS) \cup {"invalid-collection"})
        \X {"visual", "B02", "vv", "data", "nope"}

CallDownloadTile(collection, asset_key, bbox) ==
    /\ \E o \in TileOutcomes(collection, asset_key, bbox) :
         call' = [fn |-> "download_tile",
                  args |-> [collection |-> collection, asset_key |-> asset_key,
                            bbox |-> bbox],
                  out |-> o]
    /\ UNCHANGED <<tracker, turnstile_secret_key, req, disk>>

(***************************************************************************)
(* app/s3_utils.py.  An object key is the list of its segments between     *)
(* the slashes.  A fault names the step that fails and the exception       *)
(* class it raises.                                                        *)
(***************************************************************************)
ObjectKeys == {<<"tile.tif">>, <<"exports", "tile.png">>}

\* s3_client.upload_file: "ok", or the class of the exception it raises
UploadFaults == {"ok", "ClientError", "S3UploadFailedError"}

\* the steps of schedule_deletion that can fail, with the exception raised
ScheduleFaults ==
    {<<"none", "">>,
     <<"scheduler_client", "BotoCoreError">>,
     <<"sts_client", "BotoCoreError">>,
     <<"get_caller_identity", "ClientError">>,
     <<"get_caller_identity", "BotoCoreError">>,
     <<"create_schedule", "ClientError">>,
     <<"create_schedule", "BotoCoreError">>}

\* schedule_deletion(object_key): only create_schedule is inside the try block
schedule_deletion(fault) ==
    [scheduled |-> fault[1] = "none",
     raises |-> IF fault[1] \in {"none", "create_schedule"} THEN "" ELSE fault[2]]

\* f"https://{bucket}.s3.{region}.amazonaws.com/{object_key}"
DirectUrl(object_key) ==
    <<"https://", "bucket", ".s3.", "region", ".amazonaws.com">> \o object_key

\* upload_to_s3(file_path, object_key): except ClientError wraps what the upload
\* or schedule_deletion raised into Exception; any other class passes through
upload_to_s3(object_key, upload, fault) ==
    LET wrap(class) == IF class = "ClientError" THEN "Exception" ELSE class
        sched == schedule_deletion(fault)
    IN  IF upload # "ok"
        THEN [uploaded |-> FALSE, scheduled |-> FALSE, raises |-> wrap(upload),
              url |-> <<>>]
        ELSE IF sched.raises # ""
        THEN [uploaded |-> TRUE, scheduled |-> FALSE, raises |-> wrap(sched.raises),
              url |-> <<>>]
        ELSE [uploaded |-> TRUE, scheduled |-> sched.scheduled, raises |-> "",
              url |-> DirectUrl(object_key)]

CallUploadToS3(object_key, upload, fault) ==
    /\ call' = [fn |-> "upload_to_s3",
                args |-> [object_key |-> object_key, upload |-> upload,
                          fault |-> fault],
                out |-> upload_to_s3(object_key, upload, fault)]
    /\ UNCHANGED <<tracker, turnstile_secret_key, req, disk>>

(***************************************************************************)
(* app/conversion.py.  A band is the sequence of its pixels; a pixel is a  *)
(* number or NaN.  Percentiles are kept in hundredths, so that the linear  *)
(* interpolation of np.percentile is exact; the rounding of floating-point *)
(* arithmetic is not followed.                                             *)
(***************************************************************************)
NaN == [nan |-> TRUE, v |-> 0]

Num(v) == [nan |-> FALSE, v |-> v]

Max(a, b) == IF a > b THEN a ELSE b

\* np.clip(v, lo, hi)
Clip(v, lo, hi) == Min(Max(v, lo), hi)

\* nodata_mask = np.isnan(arr) | (arr == nodata_value)
NodataMask(arr, nodata_value) ==
    [i \in 1..Len(arr) |-> arr[i].nan \/ arr[i].v = nodata_value]

\* np.zeros_like(arr, dtype=np.uint8)
Zeros(arr) == [i \in 1..Len(arr) |-> 0]

\* arr[valid_mask]: the values of the valid pixels
ValidValues(arr, mask) ==
    LET idx == SelectSeq([i \in 1..Len(arr) |-> i], LAMBDA i : ~mask[i])
    IN  [k \in 1..Len(idx) |-> arr[idx[k]].v]

RECURSIVE Insert(_, _)
Insert(sorted, x) ==
    IF sorted = <<>> THEN <<x>>
    ELSE IF x <= Head(sorted) THEN <<x>> \o sorted
    ELSE <<Head(sorted)>> \o Insert(Tail(sorted), x)

RECURSIVE Sorted(_)
Sorted(values) ==
    IF values = <<>> THEN <<>> ELSE Insert(Sorted(Tail(values)), Head(values))

\* 100 * np.percentile(values, q), values not empty: linear interpolation between
\* the order statistics around position q / 100 * (n - 1)
Percentile100(values, q) ==
    LET srt == Sorted(values)
        pos == q * (Len(srt) - 1)
        i == pos \div 100 + 1
        rem == pos % 100
    IN  IF rem = 0 THEN 100 * srt[i]
        ELSE 100 * srt[i] + rem * (srt[i + 1] - srt[i])

ScaleNoClip(pixel, low, high, unit) ==
    IF pixel.nan THEN 0
    ELSE (((pixel.v * unit - low) * 255) \div (high - low)) % 256

\* ((clipped - low) / (high - low) * 255).astype(np.uint8), low < high, all four
\* numbers in one unit; a NaN pixel is overwritten through the mask afterwards
Scale255(pixel, low, high, unit) ==
    IF pixel.nan THEN 0
    ELSE ((Clip(pixel.v * unit, low, high) - low) * 255) \div (high - low)

\* normalize_array(arr, percentile_clip=(2, 98), nodata_value)
normalize_array(arr, nodata_value) ==
    LET nodata_mask == NodataMask(arr, nodata_value)
        valid == ValidValues(arr, nodata_mask)
    IN  IF valid = <<>> THEN [data |-> Zeros(arr), mask |-> nodata_mask]
        ELSE LET low == Percentile100(valid, 2)
                 high == Percentile100(valid, 98)
             IN  IF high = low THEN [data |-> Zeros(arr), mask |-> nodata_mask]
                 ELSE [data |-> [i \in 1..Len(arr) |->
                                   IF nodata_mask[i] THEN 0
                                   ELSE Scale255(arr[i], low, high, 100)],
                       mask |-> nodata_mask]

(***************************************************************************)
(* A range string is the sequence of its characters.                       *)
(***************************************************************************)
Digits == <<"0", "1", "2", "3", "4", "5", "6", "7", "8", "9">>

IsDigit(ch) == \E d \in 1..10 : Digits[d] = ch

DigitValue(ch) == (CHOOSE d \in 1..10 : Digits[d] = ch) - 1

\* rescale_range.split(',')
RECURSIVE Split(_)
Split(str) ==
    IF \A i \in 1..Len(str) : str[i] # ","
    THEN <<str>>
    ELSE LET k == CHOOSE i \in 1..Len(str) :
                      str[i] = "," /\ \A j \in 1..(i - 1) : str[j] # ","
         IN  <<SubSeq(str, 1, k - 1)>> \o Split(SubSeq(str, k + 1, Len(str)))

RECURSIVE Natural(_)
Natural(digits) ==
    IF digits = <<>> THEN 0
    ELSE 10 * Natural(SubSeq(digits, 1, Len(digits) - 1))
           + DigitValue(digits[Len(digits)])

\* float(part), for the parts written with a sign and digits: whether it
\* succeeds, and its value
ParseFloat(part) ==
    LET digits == IF part # <<>> /\ part[1] = "-" THEN Tail(part) ELSE part
        ok == digits # <<>> /\ \A i \in 1..Len(digits) : IsDigit(digits[i])
    IN  [ok |-> ok,
         val |-> IF ~ok THEN 0
                 ELSE IF part[1] = "-" THEN 0 - Natural(digits)
                 ELSE Natural(digits)]

\* min_val, max_val = map(float, rescale_range.split(',')): whether it succeeds
ParseRange(rescale_range) ==
    LET parts == Split(rescale_range)
        ok == /\ Len(parts) = 2
              /\ ParseFloat(parts[1]).ok
              /\ ParseFloat(parts[2]).ok
    IN  [ok |-> ok,
         min_val |-> IF ok THEN ParseFloat(parts[1]).val ELSE 0,
         max_val |-> IF ok THEN ParseFloat(parts[2]).val ELSE 0]

NoRange == <<"N", "o", "n", "e">>

\* rescale_array(arr, rescale_range, nodata_value); NoRange is rescale_range=None.
\* With min_val > max_val, np.clip yields max_val everywhere
rescale_array(arr, rescale_range, nodata_value) ==
    LET nodata_mask == NodataMask(arr, nodata_value)
        range == ParseRange(rescale_range)
    IN  IF rescale_range = NoRange THEN normalize_array(arr, nodata_value)
        ELSE IF ~range.ok THEN normalize_array(arr, nodata_value)
        ELSE IF range.max_val = range.min_val
        THEN [data |-> Zeros(arr), mask |-> nodata_mask]
        ELSE [data |-> [i \in 1..Len(arr) |->
                          IF nodata_mask[i] THEN 0
                          ELSE IF range.min_val > range.max_val THEN 255
                          ELSE Scale255(arr[i], range.min_val, range.max_val, 1)],
              mask |-> nodata_mask]

(***************************************************************************)
(* apply_colormap and geotiff_to_png.  A colormap is known by its two end  *)
(* colours, with a straight line between them in place of matplotlib's     *)
(* table.                                                                  *)
(***************************************************************************)
\* plt.get_cmap(colormap), with the second try under the capitalised name and
\* the fallback to viridis
ColorTable(colormap) ==
    IF colormap \in {"rdylgn", "RdYlGn"}
    THEN [lo |-> <<165, 0, 38>>, hi |-> <<0, 104, 55>>]
    ELSE [lo |-> <<68, 1, 84>>, hi |-> <<253, 231, 36>>]

\* (cmap(x / 255.0)[:3] * 255).astype(np.uint8)
Colour(table, x) ==
    [ch \in 1..3 |-> table.lo[ch] + ((table.hi[ch] - table.lo[ch]) * x) \div 255]

apply_colormap_unmasked(data, colormap, nodata_mask) ==
    [i \in 1..Len(data) |->
       IF colormap = "" THEN <<data[i], data[i], data[i]>>
       ELSE Colour(ColorTable(colormap), data[i])]

\* apply_colormap(data, colormap, nodata_mask); "" is colormap=None
apply_colormap(data, colormap, nodata_mask) ==
    [i \in 1..Len(data) |->
       IF nodata_mask[i] THEN <<0, 0, 0>>
       ELSE IF colormap = "" THEN <<data[i], data[i], data[i]>>
       ELSE Colour(ColorTable(colormap), data[i])]

\* if rescale: neither None nor the empty string
Truthy(rescale) == rescale # NoRange /\ rescale # <<>>

\* nodata_value = src.nodata if src.nodata is not None else 0
NodataValue(src) == IF src.nodata.declared THEN src.nodata.v ELSE 0

\* the image geotiff_to_png(input_path, rescale=rescale, colormap=colormap) saves,
\* src being the raster at input_path: its bands and its declared nodata value
geotiff_to_png(src, rescale, colormap) ==
    LET nodata_value == NodataValue(src)
        norm(band) == IF Truthy(rescale)
                      THEN rescale_array(band, rescale, nodata_value)
                      ELSE normalize_array(band, nodata_value)
    IN  IF Len(src.bands) >= 3
        THEN LET n == [b \in 1..3 |-> norm(src.bands[b])]
                 combined_nodata ==
                     [i \in 1..Len(src.bands[1]) |-> \E b \in 1..3 : n[b].mask[i]]
             IN  [mode |-> "RGB",
                  pixels |-> [i \in 1..Len(src.bands[1]) |->
                                IF combined_nodata[i] THEN <<0, 0, 0>>
                                ELSE <<n[1].data[i], n[2].data[i], n[3].data[i]>>]]
        ELSE LET n == norm(src.bands[1])
             IN  IF colormap # ""
                 THEN [mode |-> "RGB",
                       pixels |-> apply_colormap(n.data, colormap, n.mask)]
                 ELSE [mode |-> "L",
                       pixels |-> [i \in 1..Len(n.data) |-> <<n.data[i]>>]]

(***************************************************************************)
(* The inputs of the conversion functions.                                 *)
(***************************************************************************)
\* the pixels of a band
PixelValues == {NaN, Num(0), Num(1), Num(3), Num(4), Num(10)}

\* a band of three pixels
Bands == [1..3 -> PixelValues]

\* the bands of a three-band raster of two pixels
ThinBands == [1..2 -> {NaN, Num(0), Num(10)}]

\* src.nodata: None, or declared
Nodatas == {[declared |-> FALSE, v |-> 0], [declared |-> TRUE, v |-> 3]}

\* rescale: None, "", "0,4", "-2,10", "3,3", "10,0", "4", "0,4,8", "x,4", "0,"
RangeStrings ==
    {NoRange, <<>>, <<"0", ",", "4">>, <<"-", "2", ",", "1", "0">>,
     <<"3", ",", "3">>, <<"1", "0", ",", "0">>, <<"4">>,
     <<"0", ",", "4", ",", "8">>, <<"x", ",", "4">>, <<"0", ",">>}

\* colormap: None, a matplotlib name, a name known once capitalised, an unknown name
Colormaps == {"", "viridis", "rdylgn", "nonsense"}

CallRescaleArray(arr, rescale_range, nodata_value) ==
    /\ call' = [fn |-> "rescale_array",
                args |-> [arr |-> arr, rescale_range |-> rescale_range,
                          nodata_value |-> nodata_value],
                out |-> rescale_array(arr, rescale_range, nodata_value)]
    /\ UNCHANGED <<tracker, turnstile_secret_key, req, disk>>

CallGeotiffToPng(src, rescale, colormap) ==
    /\ call' = [fn |-> "geotiff_to_png",
                args |-> [src |-> src, rescale |-> rescale, colormap |-> colormap],
                out |-> geotiff_to_png(src, rescale, colormap)]
    /\ UNCHANGED <<tracker, turnstile_secret_key, req, disk>>

(***************************************************************************)
(* The functions called on their own, with every input.                    *)
(***************************************************************************)
\* the rescale arguments of the geotiff_to_png calls: None, "", "0,4", "x,4"
PngRanges == {NoRange, <<>>, <<"0", ",", "4">>, <<"x", ",", "4">>}

\* one call in a behaviour
DownloadTileCalls ==
    /\ call = NoCall
    /\ \E target \in TileTargets, bbox \in BBoxes :
         CallDownloadTile(target[1], target[2], bbox)

UploadCalls ==
    /\ call = NoCall
    /\ \E object_key \in ObjectKeys, upload \in UploadFaults,
          fault \in ScheduleFaults :
         CallUploadToS3(object_key, upload, fault)

RescaleCalls ==
    /\ call = NoCall
    /\ \E arr \in Bands, rescale_range \in RangeStrings, nodata \in Nodatas :
         CallRescaleArray(arr, rescale_range, NodataValue([nodata |-> nodata]))

SingleBandCalls ==
    /\ call = NoCall
    /\ \E band \in Bands, nodata \in Nodatas, rescale \in PngRanges,
          colormap \in Colormaps :
         CallGeotiffToPng([bands |-> <<band>>, nodata |-> nodata], rescale,
                          colormap)

MultiBandCalls ==
    /\ call = NoCall
    /\ \E r \in ThinBands, g \in ThinBands, b \in ThinBands, nodata \in Nodatas,
          rescale \in {NoRange, <<"0", ",", "4">>} :
         CallGeotiffToPng([bands |-> <<r, g, b>>, nodata |-> nodata], rescale,
                          "viridis")

NextCalls ==
    \/ DownloadTileCalls
    \/ UploadCalls
    \/ RescaleCalls
    \/ SingleBandCalls
    \/ MultiBandCalls

SpecCalls == Init /\ [][NextCalls]_vars

(***************************************************************************)
(* Two requests of one client in flight together, each POST /download for  *)
(* the valid target: their steps interleave at every await of the handler. *)
(***************************************************************************)
ValidTarget == <<"sentinel-2-l2a", "visual">>

\* the steps of a request between its dispatch and the end of its response
Handle(r, output_ids) ==
    \/ \E token \in Tokens : Verify(r, token, ValidTarget)
    \/ Checkpoint1(r)
    \/ \E output_id \in output_ids : DownloadTile(r, output_id)
    \/ \E format \in Formats : Checkpoint2(r, format)
    \/ Checkpoint3(r)
    \/ Convert(r)
    \/ Checkpoint4(r)
    \/ RespondTif(r)
    \/ StartStream(r)
    \/ FinishStream(r)

\* the output_ids drawn by requests in flight together, when they differ
IdOfSlot(r) == IF r = 1 THEN {"1f2e3d4c"} ELSE {"9a8b7c6d"}

\* the ledger under concurrent requests, over time
NextConcurrent ==
    \/ \E r \in Reqs, ip \in Clients : Dispatch(r, ip, DownloadPath)
    \/ \E r \in Reqs : Handle(r, IdOfSlot(r))
    \/ \E r \in Reqs : Retire(r)
    \/ Tick(3600)

SpecConcurrent == Init /\ [][NextConcurrent]_vars

\* the output paths of concurrent requests, whatever output_ids they draw
NextPaths ==
    \/ \E r \in Reqs : Dispatch(r, "a", DownloadPath)
    \/ \E r \in Reqs : Handle(r, OutputIds)
    \/ \E r \in Reqs : Retire(r)

SpecPaths == Init /\ [][NextPaths]_vars

(***************************************************************************)
(* C1.  At most 10 check_rate_limit calls of a client return allowed       *)
(* within any 60-second interval: in every state, the allowed calls of     *)
(* the interval (now - 60, now] number at most 10, so an 11th call within  *)
(* 60 seconds of the first allowed one is denied.                          *)
(***************************************************************************)
C1_AtMostTenPerMinute == \A c \in Clients : Len(admitted[c]) <= 10

\* a call is denied while 10 calls of the last minute were allowed
C1_Witness ==
    /\ lastOp.op = "check_rate_limit"
    /\ ~lastOp.ok
    /\ Len(admitted[lastOp.ip]) = 10

(***************************************************************************)
(* C2.  A denied check_rate_limit call records no timestamp: the log it    *)
(* leaves holds exactly the entries of the log before the call that are    *)
(* less than 60 seconds old.                                               *)
(***************************************************************************)
C2_DeniedCallDoesNotRecord ==
    [][\A c \in Clients :
          (lastOp'.op = "check_rate_limit" /\ lastOp'.ip = c /\ ~lastOp'.ok)
          => /\ c \in DOMAIN requests'
             /\ requests'[c] =
                  SelectSeq(Get(requests, c), LAMBDA ts : now - ts < 60)]_vars

\* a second denial in a row, the log still holding 10 entries
C2_Witness ==
    /\ lastOp.op = "check_rate_limit"
    /\ ~lastOp.ok
    /\ lastOp.denied >= 1
    /\ Len(requests[lastOp.ip]) = 10

(***************************************************************************)
(* C3.  Recovery after denial: a check_rate_limit call of a client that    *)
(* has been denied, made once 60 seconds have passed since its most        *)
(* recent allowed call, is allowed, however many attempts were denied in   *)
(* between.                                                                *)
(***************************************************************************)
C3_AllowedAgainAfterWindow ==
    (lastOp.op = "check_rate_limit" /\ lastOp.idle /\ lastOp.denied > 0)
    => lastOp.ok

\* allowed after a full window, with several denials in between
C3_Witness ==
    /\ lastOp.op = "check_rate_limit"
    /\ lastOp.idle
    /\ lastOp.denied >= 2
    /\ lastOp.ok

(***************************************************************************)
(* C4.  check_download_quota returns allowed exactly when the sizes of     *)
(* the client's downloads recorded within the past hour sum to strictly    *)
(* less than 5000 MB.                                                      *)
(***************************************************************************)
C4_QuotaAllowedIffBelowCap ==
    lastOp.op = "check_download_quota"
    => (lastOp.ok <=> SumSizes(recorded[lastOp.ip]) < 5000 * 1024)

\* three downloads of 2000 MB each within the hour: the next check denies
C4_Witness ==
    /\ lastOp.op = "check_download_quota"
    /\ ~lastOp.ok
    /\ Len(recorded[lastOp.ip]) = 3
    /\ \A i \in 1..3 : recorded[lastOp.ip][i][2] = 2000 * 1024

\* a sum equal to the cap denies, a sum 1 KiB short of it allows
C4_AtCapDenied ==
    /\ lastOp.op = "check_download_quota"
    /\ ~lastOp.ok
    /\ SumSizes(recorded[lastOp.ip]) = 5000 * 1024

C4_BelowCapAllowed ==
    /\ lastOp.op = "check_download_quota"
    /\ lastOp.ok
    /\ SumSizes(recorded[lastOp.ip]) = 5000 * 1024 - 1

(***************************************************************************)
(* C5.  A download is recorded only after the transfer has completed: a    *)
(* request that has called record_download has had its response body       *)
(* delivered, so no request that ends cancelled or failed has recorded,    *)
(* and no record precedes the delivery of the body.                        *)
(***************************************************************************)
C5_RecordedOnlyAfterDelivery ==
    \A r \in Reqs : req[r].rec => req[r].delivered

(***************************************************************************)
(* C6.  Concurrent requests of one client lose and double-count nothing:   *)
(* in every state, for every client, the part of the request log inside    *)
(* the minute is exactly the sequence of allowed rate checks of that       *)
(* minute, the part of the download log inside the hour is exactly the     *)
(* sequence of downloads recorded in that hour, and at most 10 requests    *)
(* of the minute were admitted.                                            *)
(***************************************************************************)
C6_LogsHoldEachEventOnce ==
    \A c \in Clients :
        /\ SelectSeq(Get(requests, c), LAMBDA ts : now - ts < 60) = admitted[c]
        /\ SelectSeq(Get(downloads, c), LAMBDA rec : now - rec[1] < 3600)
             = recorded[c]
        /\ Len(admitted[c]) <= 10

\* two requests in flight together have both recorded their download
C6_Witness ==
    /\ req[1].rec /\ req[1].pc \in {"checkpoint4", "stream", "streaming"}
    /\ req[2].rec /\ req[2].pc \in {"checkpoint4", "stream", "streaming"}
    /\ Len(recorded[req[1].ip]) >= 2
    /\ Len(admitted[req[1].ip]) >= 2

C7_RateDenied ==
    \E r \in Reqs :
        /\ Gated(req[r].path)
        /\ req[r].rate = "denied"
        /\ req[r].pc = "done"

(***************************************************************************)
(* C8.  When a /download request ends with an error response, no file the  *)
(* request created (GeoTIFF or PNG) is left on disk.                       *)
(***************************************************************************)
C8_FailureLeavesNoFile ==
    \A r \in Reqs :
        (/\ req[r].pc = "done"
         /\ req[r].path = DownloadPath
         /\ req[r].outcome \in {"download_error", "conversion_error",
                                "unexpected_error"})
        => Files(r) = {}

(***************************************************************************)
(* C9.  A /download request that a checkpoint found disconnected stops     *)
(* there: it runs no later step and none of its files is left.  Found at   *)
(* the first checkpoint, it has fetched nothing; found after the fetch     *)
(* and before the conversion, geotiff_to_png was not invoked and no PNG    *)
(* was created; and no response body is streamed.                          *)
(***************************************************************************)
C9_CancellationUnwinds ==
    \A r \in Reqs :
        req[r].cancelledAt # 0 =>
            /\ req[r].pc = "done"
            /\ req[r].outcome = "cancelled"
            /\ Files(r) = {}
            /\ ~req[r].started
            /\ req[r].cancelledAt = 1 =>
                 req[r].work \cap {"lookup", "open", "read", "tif_file",
                                   "convert", "png_file"} = {}
            /\ req[r].cancelledAt \in {2, 3} =>
                 /\ req[r].work \cap {"convert", "png_file"} = {}
                 /\ ~req[r].rec

\* the disconnect was seen after the fetch and before the conversion
C9_Witness ==
    \E r \in Reqs :
        /\ req[r].cancelledAt = 3
        /\ req[r].format = "png"
        /\ "tif_file" \in req[r].work
        /\ req[r].pc = "done"

(***************************************************************************)
(* C10.  Once a successful fetch request is over (its response returned    *)
(* and its body stream completed or aborted), neither its GeoTIFF nor its  *)
(* PNG is on disk.                                                         *)
(***************************************************************************)
C10_NoFileOutlivesRequest ==
    \A r \in Reqs :
        (/\ req[r].pc = "done"
         /\ Gated(req[r].path)
         /\ req[r].outcome = "ok")
        => Files(r) = {}

(***************************************************************************)
(* C11.  A fetch request naming a disabled collection is rejected: once a  *)
(* request to /download or /download/info for a collection whose catalog   *)
(* entry is disabled is over (and was not refused earlier by the governor  *)
(* or the bot verification), it was answered 400 with the disabled reason  *)
(* and download_tile was not invoked for it.                               *)
(***************************************************************************)
C11_DisabledCollectionRejected ==
    \A r \in Reqs :
        (/\ req[r].pc = "done"
         /\ Gated(req[r].path)
         /\ req[r].outcome \notin {"rate_limited", "quota_exceeded", "forbidden"}
         /\ is_collection_disabled(req[r].collection))
        => /\ req[r].outcome = "disabled"
           /\ Status(req[r].outcome) = 400
           /\ "download_tile" \notin req[r].work

(***************************************************************************)
(* C12.  download_tile fails with the invalid-asset error exactly when     *)
(* asset_key is not a key of the catalog entry of collection or the        *)
(* collection is unknown; for a known collection the error lists exactly   *)
(* the collection's asset keys; and it has then done no lookup, signing,   *)
(* raster open or read, and created no file.                               *)
(***************************************************************************)
C12_AssetValidationExactAndFirst ==
    call.fn = "download_tile" =>
        LET c == call.args.collection
            known == c \in DOMAIN COLLECTION_ASSETS
            invalid == call.out.result \in {"invalid_asset", "unknown_collection"}
        IN  /\ invalid <=>
                 ~(known /\ call.args.asset_key \in COLLECTION_ASSETS[c].assets)
            /\ invalid =>
                 /\ call.out.raises = "DownloadError"
                 /\ call.out.work = {}
                 /\ ~call.out.file
            /\ (invalid /\ known) => call.out.listed = COLLECTION_ASSETS[c].assets

\* an asset key of another collection was refused, with the list of the keys
C12_Witness ==
    /\ call.fn = "download_tile"
    /\ call.args.collection = "sentinel-2-l2a"
    /\ call.args.asset_key = "vv"
    /\ call.out.result = "invalid_asset"
    /\ call.out.listed = {"visual", "B02", "B03", "B04", "B05", "B08", "B11", "SCL"}

(***************************************************************************)
(* C13.  A request to /download or /download/info whose download_tile      *)
(* failed with an invalid collection or asset, a metadata lookup failure,  *)
(* an unavailable source or an exceeded size limit is answered 400, and    *)
(* one whose conversion to PNG failed is answered 500.                     *)
(***************************************************************************)
C13_ErrorClasses ==
    \A r \in Reqs :
        (req[r].pc = "done" /\ Gated(req[r].path)) =>
            /\ req[r].tile \in {"invalid_asset", "unknown_collection", "catalog",
                                "stac", "asset_url", "open", "read", "too_large"}
                 => Status(req[r].outcome) = 400
            /\ (/\ req[r].tile = "ok"
                /\ "convert" \in req[r].work
                /\ req[r].outcome \notin {"ok", "cancelled"})
                 => Status(req[r].outcome) = 500

(***************************************************************************)
(* C14.  download_tile returns (path, size) only when the size of the      *)
(* file it wrote is at most max_file_size_mb MB, and size is that size;    *)
(* when the file is larger it raises DownloadError, the file is gone and   *)
(* the error reports the size seen and the size allowed.                   *)
(***************************************************************************)
C14_SizeLimitEnforced ==
    (call.fn = "download_tile" /\ call.out.file_size > 0) =>
        /\ call.out.result \in {"ok", "too_large"}
        /\ call.out.result = "ok" <=> call.out.file_size <= 1500 * 1024
        /\ call.out.result = "ok" =>
             /\ call.out.size = call.out.file_size
             /\ call.out.file
        /\ call.out.result = "too_large" =>
             /\ call.out.raises = "DownloadError"
             /\ ~call.out.file
             /\ call.out.report =
                  <<(call.out.file_size * 10 + 512) \div 1024, 1500>>

\* a file one KiB over the limit was written, removed and refused
C14_Witness ==
    /\ call.fn = "download_tile"
    /\ call.out.file_size = 1500 * 1024 + 1
    /\ call.out.result = "too_large"
    /\ ~call.out.file

\* a file of exactly the limit was returned
C14_AtLimitReturned ==
    /\ call.fn = "download_tile"
    /\ call.out.file_size = 1500 * 1024
    /\ call.out.result = "ok"

(***************************************************************************)
(* C15.  A failure to schedule the deletion never fails the upload:        *)
(* whenever upload_to_s3 has uploaded the object, it returns the object's  *)
(* download URL, whichever step of schedule_deletion failed.               *)
(***************************************************************************)
C15_ScheduleFailureKeepsUpload ==
    (call.fn = "upload_to_s3" /\ call.out.uploaded) =>
        /\ call.out.raises = ""
        /\ call.out.url = DirectUrl(call.args.object_key)

(***************************************************************************)
(* C16.  get_stats(client) is a pure read: a step that calls it leaves     *)
(* the request log and the download log as they were, for every client:    *)
(* no entry added, none pruned, no client key created.                     *)
(***************************************************************************)
C16_GetStatsIsPureRead ==
    [][lastOp'.op = "get_stats" =>
         /\ requests' = requests
         /\ downloads' = downloads]_vars

(***************************************************************************)
(* C17.  A bounding box entirely off the raster, whose pixel window has    *)
(* no pixel on it, is rejected by download_tile as an empty window: once   *)
(* the raster is open, the call ends with that error, having issued no     *)
(* read and created no file.                                               *)
(***************************************************************************)
C17_EmptyWindowRejected ==
    (/\ call.fn = "download_tile"
     /\ call.args.bbox # <<>>
     /\ "open" \in call.out.work
     /\ call.out.result # "open"
     /\ WindowOnRaster(from_bounds(call.args.bbox[1], call.args.bbox[2], Raster),
                       Raster) <= 0)
    => /\ call.out.result = "empty_window"
       /\ "read" \notin call.out.work
       /\ "tif_file" \notin call.out.work
       /\ ~call.out.file

(***************************************************************************)
(* C18.  Temporary file paths are unique per request: two requests being   *)
(* handled at the same time, each with an output path made, have distinct  *)
(* GeoTIFF paths and distinct PNG paths, also when they are for the same   *)
(* collection, item and asset.                                             *)
(***************************************************************************)
C18_PathsUniquePerRequest ==
    \A r1, r2 \in Reqs :
        (/\ r1 # r2
         /\ req[r1].pc \notin {"idle", "done"} /\ req[r1].output_id # ""
         /\ req[r2].pc \notin {"idle", "done"} /\ req[r2].output_id # "")
        => /\ OutputPath(req[r1], "tif") # OutputPath(req[r2], "tif")
           /\ OutputPath(req[r1], "png") # OutputPath(req[r2], "png")

(***************************************************************************)
(* C19.  Nodata is always black: in the image geotiff_to_png produces,     *)
(* every pixel that is NaN or equal to the nodata value (0 when the        *)
(* source declares none) in the band, or in any of the three composited    *)
(* bands, is 0 in every channel, for every rescale range and colormap.     *)
(***************************************************************************)
C19_NodataIsBlack ==
    call.fn = "geotiff_to_png" =>
        LET src == call.args.src
            nodata_value == IF src.nodata.declared THEN src.nodata.v ELSE 0
            composited == IF Len(src.bands) >= 3 THEN 1..3 ELSE {1}
        IN  \A i \in 1..Len(src.bands[1]) :
                (\E b \in composited :
                    src.bands[b][i].nan \/ src.bands[b][i].v = nodata_value)
                => \A ch \in 1..Len(call.out.pixels[i]) :
                       call.out.pixels[i][ch] = 0

\* an all-nodata single-band source under a colormap came out fully black
C19_Witness ==
    /\ call.fn = "geotiff_to_png"
    /\ call.args.src.bands = <<[i \in 1..3 |-> Num(0)]>>
    /\ ~call.args.src.nodata.declared
    /\ call.args.colormap = "viridis"
    /\ call.out.mode = "RGB"
    /\ \A i \in 1..3 : call.out.pixels[i] = <<0, 0, 0>>

\* a pixel that is nodata in one band only of a three-band source came out black
C19_UnionMask ==
    /\ call.fn = "geotiff_to_png"
    /\ Len(call.args.src.bands) = 3
    /\ call.args.src.bands[1][1] = Num(10)
    /\ call.args.src.bands[2][1] = NaN
    /\ call.args.src.bands[3][1] = Num(10)
    /\ call.out.pixels[1] = <<0, 0, 0>>

(***************************************************************************)
(* C20.  For a range string "min,max" with min < max, rescale_array maps   *)
(* every valid pixel v to the floor of (clamp(v, min, max) - min) /        *)
(* (max - min) * 255, so 255 at or above max and 0 at or below min; for a  *)
(* malformed range string its result is that of normalize_array on the     *)
(* same input.                                                             *)
(***************************************************************************)
C20_ExplicitRangeRescaling ==
    call.fn = "rescale_array" =>
        LET arr == call.args.arr
            nodata_value == call.args.nodata_value
            wellFormed == {[str |-> <<"0", ",", "4">>, min |-> 0, max |-> 4],
                           [str |-> <<"-", "2", ",", "1", "0">>, min |-> 0 - 2,
                            max |-> 10]}
            malformed == {<<>>, <<"4">>, <<"0", ",", "4", ",", "8">>,
                          <<"x", ",", "4">>, <<"0", ",">>}
        IN  /\ \A w \in wellFormed :
                 call.args.rescale_range = w.str =>
                    \A i \in 1..Len(arr) :
                        (~arr[i].nan /\ arr[i].v # nodata_value) =>
                            /\ call.out.data[i] =
                                 ((Clip(arr[i].v, w.min, w.max) - w.min) * 255)
                                    \div (w.max - w.min)
                            /\ arr[i].v >= w.max => call.out.data[i] = 255
                            /\ arr[i].v <= w.min => call.out.data[i] = 0
            /\ call.args.rescale_range \in malformed =>
                 call.out = normalize_array(arr, nodata_value)

\* with "0,4" the outlier 10 came out 255 and the value 1 came out 63
C20_Witness ==
    /\ call.fn = "rescale_array"
    /\ call.args.rescale_range = <<"0", ",", "4">>
    /\ call.args.nodata_value = 0
    /\ call.args.arr = <<Num(1), Num(4), Num(10)>>
    /\ call.out.data = <<63, 255, 255>>

\* a malformed range on a band with distinct valid values was auto-scaled
C20_MalformedFallsBack ==
    /\ call.fn = "rescale_array"
    /\ call.args.rescale_range = <<"x", ",", "4">>
    /\ call.args.nodata_value = 0
    /\ call.args.arr = <<Num(1), Num(4), Num(10)>>
    /\ call.out.data # <<0, 0, 0>>

(***************************************************************************)
(* C21.  Single-band output without a colormap is a 3-channel image: for   *)
(* a source treated as single-band and no colormap, the image              *)
(* geotiff_to_png produces has three channels, all equal to the            *)
(* normalized grayscale value at every pixel, 0 in all three at nodata.    *)
(***************************************************************************)
C21_GrayscaleHasThreeChannels ==
    (/\ call.fn = "geotiff_to_png"
     /\ Len(call.args.src.bands) < 3
     /\ call.args.colormap = "")
    => LET src == call.args.src
           gray == IF Truthy(call.args.rescale)
                   THEN rescale_array(src.bands[1], call.args.rescale,
                                      NodataValue(src))
                   ELSE normalize_array(src.bands[1], NodataValue(src))
       IN  /\ call.out.mode = "RGB"
           /\ \A i \in 1..Len(src.bands[1]) :
                call.out.pixels[i] =
                    IF gray.mask[i] THEN <<0, 0, 0>>
                    ELSE <<gray.data[i], gray.data[i], gray.data[i]>>

(***************************************************************************)
(* C22.  The download log gains entries only through record_download: a    *)
(* step that is no record_download for a client leaves that client's       *)
(* download log as it was or without its records older than an hour, and   *)
(* so leaves the total of the last hour unchanged; check_download_quota    *)
(* leaves exactly the records of the last hour.                            *)
(***************************************************************************)
C22_OnlyRecordAddsDownloads ==
    [][\A c \in Clients :
         /\ ~(lastOp'.op = "record_download" /\ lastOp'.ip = c) =>
              /\ Get(downloads', c) \in
                   {Get(downloads, c), CleanDownloads(Get(downloads, c), now)}
              /\ SumSizes(CleanDownloads(Get(downloads', c), now))
                   = SumSizes(CleanDownloads(Get(downloads, c), now))
         /\ (lastOp'.op = "check_download_quota" /\ lastOp'.ip = c) =>
              Get(downloads', c) = CleanDownloads(Get(downloads, c), now)]_vars

\* a quota check has run an hour on and left the one record of the past hour
C22_Witness ==
    /\ lastOp.op = "check_download_quota"
    /\ now = 3600
    /\ Len(Get(downloads, lastOp.ip)) = 1
    /\ Len(recorded[lastOp.ip]) = 1
    /\ Get(downloads, lastOp.ip)[1][1] = 3600

(***************************************************************************)
(* C23.  Bounded quota overshoot: for every client, the downloads recorded *)
(* within the past hour never total more than the quota cap plus one       *)
(* maximum file size, 5000 MB + 1500 MB, also when several of the client's *)
(* requests are handled concurrently.                                      *)
(***************************************************************************)
C23_OvershootAtMostOneFile ==
    \A c \in Clients :
        SumSizes(recorded[c]) <= (MaxMbPerHour + MaxFileSizeMb) * 1024

(***************************************************************************)
(* C24.  Bot verification precedes every fetch: download_tile has been     *)
(* invoked for a request only if verify_turnstile_token has returned True  *)
(* for that request, and a request ended by a failed verification has      *)
(* caused no catalog lookup, raster read or file creation.                 *)
(***************************************************************************)
C24_VerifiedBeforeFetch ==
    \A r \in Reqs :
        /\ "download_tile" \in req[r].work => req[r].verified
        /\ req[r].outcome = "forbidden" =>
             req[r].work \cap {"download_tile", "lookup", "read", "tif_file"} = {}

\* the same on POST /download alone
C24_DownloadVerifiedBeforeFetch ==
    \A r \in Reqs :
        req[r].path = DownloadPath =>
            /\ "download_tile" \in req[r].work => req[r].verified
            /\ req[r].outcome = "forbidden" =>
                 req[r].work \cap {"download_tile", "lookup", "read", "tif_file"} = {}

(***************************************************************************)
(* C25.  Client isolation in the ledger: a step changes the request log or *)
(* the download log of a client key, or creates the key, only when it is a *)
(* check_rate_limit, check_download_quota, record_download or get_stats    *)
(* call for that very key; a call for key A leaves what check_rate_limit   *)
(* and check_download_quota would answer to any other key B as it was.     *)
(***************************************************************************)
C25_LedgerIsolatesClients ==
    [][\A b \in Clients :
         /\ (\/ Get(requests', b) # Get(requests, b)
             \/ Get(downloads', b) # Get(downloads, b)
             \/ (b \in DOMAIN requests') # (b \in DOMAIN requests)
             \/ (b \in DOMAIN downloads') # (b \in DOMAIN downloads))
            => /\ lastOp'.ip = b
               /\ lastOp'.op \in {"check_rate_limit", "check_download_quota",
                                  "record_download", "get_stats"}
         /\ (lastOp'.op # "tick" /\ lastOp'.ip # b)
            => /\ RateAllowed(b, MaxRequests, WindowMinutes)'
                    = RateAllowed(b, MaxRequests, WindowMinutes)
               /\ QuotaAllowed(b, MaxMbPerHour)' = QuotaAllowed(b, MaxMbPerHour)]_vars

\* client b is admitted while client a, whose log is full, has just been denied
C25_Witness ==
    /\ lastOp.op = "check_rate_limit"
    /\ lastOp.ip = "b"
    /\ lastOp.ok
    /\ Len(Get(requests, "a")) = MaxRequests
    /\ denials["a"] > 0
    /\ Len(Get(downloads, "a")) > 0

(***************************************************************************)
(* C26.  Rejected requests still consume rate slots: when a request to a   *)
(* path under /download is dispatched and passes the rate check, its       *)
(* timestamp is appended to the client's request log in that same step,    *)
(* whatever the quota check answers, and no later step of the request      *)
(* changes the log; so a request denied by the quota check, by bot         *)
(* verification, by the disabled-collection check or by asset validation   *)
(* has passed the rate check and is in the log.  A request the rate check  *)
(* denied gets no entry.                                                   *)
(***************************************************************************)
C26_RejectedRequestsAreCounted ==
    [][/\ \A r \in Reqs :
            (req[r].pc = "idle" /\ req'[r].pc # "idle" /\ Gated(req'[r].path)) =>
                LET ip == req'[r].ip
                    cleaned == CleanRequests(Get(requests, ip),
                                             RateCutoff(now, WindowMinutes))
                IN  /\ req'[r].rate \in {"allowed", "denied"}
                    /\ req'[r].rate = "allowed" =>
                         Get(requests', ip) = Append(cleaned, now)
                    /\ req'[r].rate = "denied" =>
                         /\ Get(requests', ip) = cleaned
                         /\ req'[r].outcome = "rate_limited"
       /\ \A r \in Reqs :
            req[r].pc # "idle" =>
                Get(requests', req[r].ip) = Get(requests, req[r].ip)
       /\ \A r \in Reqs :
            (/\ Gated(req'[r].path)
             /\ \/ req'[r].outcome \in {"quota_exceeded", "forbidden", "disabled"}
                \/ req'[r].tile \in {"invalid_asset", "unknown_collection"})
            => req'[r].rate = "allowed"]_vars

\* a request refused by bot verification holds the latest entry of the log
C26_Witness ==
    \E r \in Reqs :
        /\ req[r].path = DownloadPath
        /\ req[r].outcome = "forbidden"
        /\ req[r].rate = "allowed"
        /\ Len(Get(requests, req[r].ip)) = MaxRequests
        /\ Get(requests, req[r].ip)[MaxRequests] = now

\* a request refused by the quota check holds the latest entry of the log
C26_QuotaDeniedCounted ==
    \E r \in Reqs :
        /\ req[r].outcome = "quota_exceeded"
        /\ Len(Get(requests, req[r].ip)) > 0
        /\ Get(requests, req[r].ip)[Len(Get(requests, req[r].ip))] = now

\* a request refused by asset validation holds the latest entry of the log
C26_InvalidAssetCounted ==
    \E r \in Reqs :
        /\ req[r].path = DownloadPath
        /\ req[r].tile = "invalid_asset"
        /\ req[r].outcome = "download_error"
        /\ Get(requests, req[r].ip)[Len(Get(requests, req[r].ip))] = now

\* a request refused by the disabled-collection check holds the latest entry
C26_DisabledCounted ==
    \E r \in Reqs :
        /\ req[r].outcome = "disabled"
        /\ Get(requests, req[r].ip)[Len(Get(requests, req[r].ip))] = now

=============================================================================
